---- MODULE Spec2Model ----
(***************************************************************************)
(* base-parallel (src/src/base-parallel.c): a worker pool in which a       *)
(* control thread hands work values to per-core worker threads over a pair *)
(* of auto-reset events and a one-word slot per worker.                    *)
(*                                                                         *)
(* The model has three kinds of processes: main_utf8, ControlThread and    *)
(* one ParallelTaskThread per worker.  Every atomic step holds at most one *)
(* access to state that another thread can touch.  A wait on a kernel      *)
(* object is a step that is enabled when the object is signalled, plus a   *)
(* timeout step that is enabled while it is not.                           *)
(***************************************************************************)
EXTENDS Integers, Sequences, FiniteSets, TLC

(* ------------------------------ bounds --------------------------------- *)
\* width in bits of the affinity words explored by SpecPlan (DWORD_PTR is 64)
AffinityBits == 4
\* spare counts explored by SpecPlan: 0..MaxSpare
MaxSpare == 2
\* largest number of workers of the pool explored by Spec
MaxWorkers == 2
\* rounds of the dispatch loop in the model (100 in the source)
MAX_ITERATIONS == 2

(* ------------------------- program constants --------------------------- *)
SPARE_THREADS == 0

VARIABLES
  proc_affinity,    \* what GetProcessAffinityMask reports for the process
  spare,            \* the spare count the build was compiled with
  num_threads,      \* DWORD num_threads
  thread_affinity,  \* DWORD_PTR* thread_affinity; NULLARR when NULL
  plan_ret,         \* return value of SetThreadAffinity: "none" before the call
  mainPc, main_r,   \* main_utf8: position and its local r
  cancel_requested,
  ctlPc, ctl_r,     \* ControlThread: position and its local r
  ctl_i, iteration, \* ControlThread: loop index / selected worker, round
  task_thread, data_ready, thread_ready, thread_data,   \* the four arrays
  ev_data, ev_ready,\* kernel state of each worker's two events
  th_handle,        \* kernel state of each worker's thread handle
  wPc, w_seen,      \* ParallelTaskThread i: position, value read at 133
  faults,           \* history: the environment failures that occurred
  nReady, nDispatch, nBcast, \* history: successful SetEvent calls per worker
  recvCnt,          \* history: recvCnt[v] = times value v was received
  nSentinel,        \* history: times worker i read the sentinel
  pending,          \* history: slot i holds a dispatched value not yet read
  lost,             \* history: dispatched values overwritten before being read
  milestones,       \* history: the stages ControlThread went through
  heap,             \* the per-worker arrays that are allocated and not freed
  w_pin,            \* the affinity mask each worker thread was pinned to
  w_data,           \* the value worker i printed at line 139
  cancel_early,     \* history: cancel_requested was set before the first
                    \* evaluation of the loop condition of line 187
  wrAfter           \* history: writes of line 195 made with the flag set

vars == << proc_affinity, spare, num_threads, thread_affinity, plan_ret,
           mainPc, main_r, cancel_requested, ctlPc, ctl_r, ctl_i, iteration,
           task_thread, data_ready, thread_ready, thread_data,
           ev_data, ev_ready, th_handle, wPc, w_seen,
           faults, nReady, nDispatch, nBcast, recvCnt, nSentinel, pending,
           lost, milestones, heap, w_pin, w_data, cancel_early, wrAfter >>

inputVars == << proc_affinity, spare >>
planVars == << num_threads, thread_affinity, plan_ret >>
mainVars == << mainPc, main_r >>
ctlVars == << ctlPc, ctl_r, ctl_i, iteration >>
arrVars == << task_thread, data_ready, thread_ready, thread_data, heap >>
kernVars == << ev_data, ev_ready, th_handle >>
wVars == << wPc, w_seen, w_data, w_pin >>
histVars == << nReady, nDispatch, nBcast, recvCnt, nSentinel, pending, lost,
               milestones >>
cancelHist == << cancel_early, wrAfter >>
poolVars == << cancel_requested, ctlVars, arrVars, kernVars, wVars, histVars >>

(* ------------------------- machine arithmetic -------------------------- *)
RECURSIVE Pow2(_)
Pow2(n) == IF n = 0 THEN 1 ELSE 2 * Pow2(n - 1)

RECURSIVE BitAnd(_, _)
BitAnd(a, b) ==
  IF a = 0 \/ b = 0 THEN 0
  ELSE (IF a % 2 = 1 /\ b % 2 = 1 THEN 1 ELSE 0) + 2 * BitAnd(a \div 2, b \div 2)

RECURSIVE BitXor(_, _)
BitXor(a, b) ==
  IF a = 0 THEN b
  ELSE IF b = 0 THEN a
  ELSE (IF a % 2 = b % 2 THEN 0 ELSE 1) + 2 * BitXor(a \div 2, b \div 2)

\* the word width the arithmetic is carried out in; every affinity word of the
\* model fits in it, as every affinity word of the program fits in 64 bits
WordBits == AffinityBits + MaxWorkers
WordMod == Pow2(WordBits)

\* -1LL * a in two's complement
Negate(a) == (WordMod - a) % WordMod

\* popcnt64: the pairwise sums of the source, with the masks cut to 16 bits;
\* the two last stages of the source add halves that are zero below 2^16
popcnt64(u) ==
  LET u1 == BitAnd(u, 21845) + BitAnd(u \div 2, 21845)
      u2 == BitAnd(u1, 13107) + BitAnd(u1 \div 4, 13107)
      u3 == BitAnd(u2, 3855) + BitAnd(u2 \div 16, 3855)
      u4 == BitAnd(u3, 255) + BitAnd(u3 \div 256, 255)
  IN  u4 % 256

\* a faulty variant of LowBit: the highest set bit instead of the lowest
LowBitMutant(a) == IF a = 0 THEN 0 ELSE Pow2(CHOOSE k \in 0..WordBits :
                       /\ Pow2(k) <= a /\ a < Pow2(k + 1))
\* affinity & (-1LL * affinity)
LowBit(a) == BitAnd(a, Negate(a))

NULLARR == [i \in {} |-> 0]
IsNull(arr) == DOMAIN arr = {}
Calloc(n) == [i \in 0..(n - 1) |-> 0]

\* the loop of lines 108-111: masks[i] |= lowbit; affinity ^= lowbit
RECURSIVE SpreadAffinity(_, _, _, _)
SpreadAffinity(masks, affinity, i, n) ==
  IF i >= n THEN masks
  ELSE SpreadAffinity([masks EXCEPT ![i] = LowBit(affinity)],
                      BitXor(affinity, LowBit(affinity)), i + 1, n)

(* ----------------------------- the planner ----------------------------- *)
\* gpam: GetProcessAffinityMask succeeded; mem: calloc returned memory
SetThreadAffinity(gpam, mem) ==
  IF ~gpam
  THEN /\ num_threads' = 0
       /\ plan_ret' = "FALSE"
       /\ faults' = faults \cup {"GetProcessAffinityMask"}
       /\ UNCHANGED thread_affinity
  ELSE LET c == popcnt64(proc_affinity) IN
       IF c <= spare
       THEN /\ num_threads' = c
            /\ plan_ret' = "FALSE"
            /\ UNCHANGED << thread_affinity, faults >>
       ELSE IF ~mem
       THEN /\ num_threads' = c - spare
            /\ plan_ret' = "FALSE"
            /\ faults' = faults \cup {"calloc thread_affinity"}
            /\ UNCHANGED thread_affinity
       ELSE /\ num_threads' = c - spare
            /\ thread_affinity' =
                 SpreadAffinity(Calloc(c - spare), proc_affinity, 0, c - spare)
            /\ plan_ret' = "TRUE"
            /\ UNCHANGED faults

(* ------------------------------ main_utf8 ------------------------------ *)
\* the process is running: no thread has made an invalid memory access
Alive == ctlPc # "crashed"

\* line 262: the call of SetThreadAffinity
MainPlan ==
  /\ mainPc = "start"
  /\ \E gpam \in BOOLEAN, mem \in BOOLEAN : SetThreadAffinity(gpam, mem)
  /\ mainPc' = "planned"
  /\ UNCHANGED << inputVars, cancelHist, main_r, poolVars >>

\* lines 262-273: the test of the planner's result, CreateThread of the
\* control thread and the registration of ConsoleHandler
MainStart ==
  /\ mainPc = "planned"
  /\ IF plan_ret = "FALSE"
     THEN /\ mainPc' = "out"
          /\ UNCHANGED << ctlPc, faults >>
     ELSE \E ok \in BOOLEAN :
            IF ok
            THEN /\ mainPc' = "wait"
                 /\ ctlPc' = "check"
                 /\ UNCHANGED faults
            ELSE /\ mainPc' = "out"
                 /\ faults' = faults \cup {"CreateThread ControlThread"}
                 /\ UNCHANGED ctlPc
  /\ UNCHANGED << inputVars, cancelHist, planVars, main_r, cancel_requested, ctl_r, ctl_i,
                  iteration, arrVars, kernVars, wVars, histVars >>

\* lines 274-278: WaitForSingleObject(control_thread, INFINITE) returns
\* WAIT_OBJECT_0 once the control thread has ended, whatever its exit code
MainWait ==
  /\ mainPc = "wait"
  /\ ctlPc = "done"
  /\ main_r' = 0
  /\ mainPc' = "out"
  /\ UNCHANGED << inputVars, cancelHist, planVars, faults, poolVars >>

\* lines 280-282: free(thread_affinity); return r
MainReturn ==
  /\ mainPc = "out"
  /\ mainPc' = "done"
  /\ UNCHANGED << inputVars, cancelHist, planVars, main_r, faults, poolVars >>

\* ConsoleHandler, registered at line 273, on CTRL_C_EVENT
ConsoleHandler ==
  /\ mainPc = "wait"
  /\ Alive
  /\ ~cancel_requested
  /\ cancel_requested' = TRUE
  /\ cancel_early' = (ctlPc \in {"check", "create"}
                         \/ (ctlPc = "loop" /\ iteration = 1))
  /\ UNCHANGED << inputVars, wrAfter, planVars, mainVars, faults, ctlVars, arrVars,
                  kernVars, wVars, histVars >>

(* ---------------------------- ControlThread ---------------------------- *)
Workers == 0..(MaxWorkers - 1)
Spawned == 0..(num_threads - 1)
ArrayNames == {"task_thread", "data_ready", "thread_ready", "thread_data"}
Running(i) ==
  wPc[i] \in {"SetEvent", "wait", "check", "print", "work", "break"}
Exited(i) == wPc[i] \in {"exit0", "exit1", "terminated"}

\* goto out
GotoOut ==
  /\ ctlPc' = "out"
  /\ ctl_i' = 0

\* lines 153-163: the configuration check and the four calloc calls;
\* failed is the set of arrays for which calloc returned NULL
CtlAlloc ==
  /\ ctlPc = "check"
  /\ IF num_threads = 0 \/ IsNull(thread_affinity)
     THEN /\ ctlPc' = "done"
          /\ UNCHANGED << ctl_r, ctl_i, iteration, arrVars, faults, milestones >>
     ELSE \E failed \in SUBSET ArrayNames :
            /\ task_thread' =
                 IF "task_thread" \in failed THEN NULLARR ELSE Calloc(num_threads)
            /\ data_ready' =
                 IF "data_ready" \in failed THEN NULLARR ELSE Calloc(num_threads)
            /\ thread_ready' =
                 IF "thread_ready" \in failed THEN NULLARR ELSE Calloc(num_threads)
            /\ thread_data' =
                 IF "thread_data" \in failed THEN NULLARR ELSE Calloc(num_threads)
            /\ heap' = ArrayNames \ failed
            /\ ctl_i' = 0
            /\ IF failed = {}
               THEN /\ ctlPc' = "create"
                    /\ UNCHANGED faults
               ELSE /\ ctlPc' = "out"
                    /\ faults' = faults \cup {"calloc"}
            /\ milestones' = milestones \cup {"alloc"}
            /\ UNCHANGED << ctl_r, iteration >>
  /\ UNCHANGED << inputVars, cancelHist, planVars, mainVars, cancel_requested, kernVars,
                  wVars, nReady, nDispatch, nBcast, recvCnt, nSentinel,
                  pending, lost >>

\* lines 167-185, one pass of the loop for worker ctl_i: the two CreateEvent
\* calls, CreateThread, SetThreadPriority and SetThreadAffinityMask
CtlCreate ==
  /\ ctlPc = "create"
  /\ ctl_i < num_threads
  /\ \E okD \in BOOLEAN, okR \in BOOLEAN, okT \in BOOLEAN :
       LET i == ctl_i IN
       /\ data_ready' = [data_ready EXCEPT ![i] = IF okD THEN 1 ELSE 0]
       /\ thread_ready' = [thread_ready EXCEPT ![i] = IF okR THEN 1 ELSE 0]
       /\ ev_data' = [ev_data EXCEPT ![i] = IF okD THEN "unset" ELSE @]
       /\ ev_ready' = [ev_ready EXCEPT ![i] = IF okR THEN "unset" ELSE @]
       /\ IF ~(okD /\ okR)
          THEN /\ faults' = faults \cup {"CreateEvent"}
               /\ GotoOut
               /\ UNCHANGED << task_thread, th_handle, wPc, w_pin, iteration,
                               milestones >>
          ELSE IF ~okT
          THEN /\ faults' = faults \cup {"CreateThread"}
               /\ GotoOut
               /\ UNCHANGED << task_thread, th_handle, wPc, w_pin, iteration,
                               milestones >>
          ELSE /\ task_thread' = [task_thread EXCEPT ![i] = 1]
               /\ th_handle' = [th_handle EXCEPT ![i] = "open"]
               /\ wPc' = [wPc EXCEPT ![i] = "SetEvent"]
               /\ w_pin' = [w_pin EXCEPT ![i] =
                              IF thread_affinity[i] # 0 THEN thread_affinity[i] ELSE @]
               /\ ctl_i' = i + 1
               /\ IF i + 1 < num_threads
                  THEN UNCHANGED << ctlPc, iteration, milestones >>
                  ELSE /\ ctlPc' = "loop"
                       /\ iteration' = 1
                       /\ milestones' = milestones \cup {"setup"}
               /\ UNCHANGED faults
  /\ UNCHANGED << inputVars, cancelHist, planVars, mainVars, cancel_requested, ctl_r,
                  thread_data, heap, w_seen, w_data, nReady, nDispatch,
                  nBcast, recvCnt, nSentinel, pending, lost >>

\* faulty variant of the loop condition: cancel_requested is not tested
CtlLoopIgnoresCancel ==
  /\ ctlPc = "loop"
  /\ ctlPc' = IF iteration <= MAX_ITERATIONS THEN "wait" ELSE "sleep"
  /\ UNCHANGED << inputVars, cancelHist, planVars, mainVars,
                  cancel_requested, ctl_r, ctl_i, iteration, arrVars,
                  kernVars, wVars, faults, histVars >>

\* line 187: the loop condition
CtlLoop ==
  /\ ctlPc = "loop"
  /\ ctlPc' = IF iteration <= MAX_ITERATIONS /\ ~cancel_requested
              THEN "wait" ELSE "sleep"
  /\ UNCHANGED << inputVars, cancelHist, planVars, mainVars, cancel_requested, ctl_r, ctl_i,
                  iteration, arrVars, kernVars, wVars, faults, histVars >>

\* the objects of thread_ready[] that are signalled
ReadySet == {i \in Spawned : ev_ready[i] = "set"}
Lowest(S) == CHOOSE i \in S : \A k \in S : i <= k

\* a faulty variant of CtlWaitReady: thread_ready[i] as a manual-reset event,
\* which the wait leaves signalled
CtlWaitReadyManualReset ==
  /\ ctlPc = "wait"
  /\ ReadySet # {}
  /\ ctl_i' = Lowest(ReadySet)
  /\ ctlPc' = "write"
  /\ UNCHANGED << inputVars, cancelHist, planVars, mainVars, cancel_requested, ctl_r,
                  iteration, arrVars, kernVars, wVars, faults, histVars >>

\* line 189, WaitForMultipleObjects(num_threads, thread_ready, FALSE, ..)
\* returning an index: the lowest signalled event, which is reset
CtlWaitReady ==
  /\ ctlPc = "wait"
  /\ ReadySet # {}
  /\ ctl_i' = Lowest(ReadySet)
  /\ ev_ready' = [ev_ready EXCEPT ![Lowest(ReadySet)] = "unset"]
  /\ ctlPc' = "write"
  /\ UNCHANGED << inputVars, cancelHist, planVars, mainVars, cancel_requested, ctl_r,
                  iteration, arrVars, ev_data, th_handle, wVars, faults,
                  histVars >>

\* lines 189-193: the wait times out, no event having been signalled
CtlWaitTimeout ==
  /\ ctlPc = "wait"
  /\ ReadySet = {}
  /\ faults' = faults \cup {"timeout thread_ready"}
  /\ GotoOut
  /\ UNCHANGED << inputVars, cancelHist, planVars, mainVars, cancel_requested, ctl_r,
                  iteration, arrVars, kernVars, wVars, histVars >>

\* faulty variant of the write: the value is stored in every slot
CtlWriteAll ==
  /\ ctlPc = "write"
  /\ thread_data' = [k \in DOMAIN thread_data |-> iteration]
  /\ lost' = IF pending[ctl_i] THEN lost \cup {thread_data[ctl_i]} ELSE lost
  /\ pending' = [pending EXCEPT ![ctl_i] = TRUE]
  /\ wrAfter' = IF cancel_requested THEN wrAfter + 1 ELSE wrAfter
  /\ ctlPc' = "signal"
  /\ UNCHANGED << inputVars, cancel_early, planVars, mainVars,
                  cancel_requested, ctl_r, ctl_i, iteration, task_thread,
                  data_ready, thread_ready, heap, kernVars, wVars, faults,
                  nReady, nDispatch, nBcast, recvCnt, nSentinel, milestones >>

\* line 195: thread_data[i] = iteration
CtlWrite ==
  /\ ctlPc = "write"
  /\ thread_data' = [thread_data EXCEPT ![ctl_i] = iteration]
  /\ lost' = IF pending[ctl_i] THEN lost \cup {thread_data[ctl_i]} ELSE lost
  /\ pending' = [pending EXCEPT ![ctl_i] = TRUE]
  /\ wrAfter' = IF cancel_requested THEN wrAfter + 1 ELSE wrAfter
  /\ ctlPc' = "signal"
  /\ UNCHANGED << inputVars, cancel_early, planVars, mainVars, cancel_requested, ctl_r, ctl_i,
                  iteration, task_thread, data_ready, thread_ready, heap,
                  kernVars, wVars, faults, nReady, nDispatch, nBcast, recvCnt,
                  nSentinel, milestones >>

\* lines 197-200 and the iteration++ of line 187
CtlSignal ==
  /\ ctlPc = "signal"
  /\ \E ok \in BOOLEAN :
       IF ok
       THEN /\ ev_data' = [ev_data EXCEPT ![ctl_i] = "set"]
            /\ nDispatch' = [nDispatch EXCEPT ![ctl_i] = @ + 1]
            /\ iteration' = iteration + 1
            /\ ctlPc' = "loop"
            /\ UNCHANGED << ctl_i, faults >>
       ELSE /\ faults' = faults \cup {"SetEvent data_ready"}
            /\ GotoOut
            /\ UNCHANGED << ev_data, nDispatch, iteration >>
  /\ UNCHANGED << inputVars, cancelHist, planVars, mainVars, cancel_requested, ctl_r,
                  arrVars, ev_ready, th_handle, wVars, nReady, nBcast, recvCnt,
                  nSentinel, pending, lost, milestones >>

\* line 204: Sleep(250)
CtlSleep ==
  /\ ctlPc = "sleep"
  /\ ctlPc' = "memset"
  /\ milestones' = milestones \cup {"loop left"}
  /\ UNCHANGED << inputVars, cancelHist, planVars, mainVars, cancel_requested, ctl_r, ctl_i,
                  iteration, arrVars, kernVars, wVars, faults, nReady,
                  nDispatch, nBcast, recvCnt, nSentinel, pending, lost >>

\* line 207: memset(thread_data, 0, ..)
CtlMemset ==
  /\ ctlPc = "memset"
  /\ thread_data' = [i \in DOMAIN thread_data |-> 0]
  /\ lost' = lost \cup {thread_data[i] : i \in {k \in Spawned : pending[k]}}
  /\ pending' = [i \in Workers |-> FALSE]
  /\ ctlPc' = "bcast"
  /\ ctl_i' = 0
  /\ milestones' = milestones \cup {"memset"}
  /\ UNCHANGED << inputVars, cancelHist, planVars, mainVars, cancel_requested, ctl_r,
                  iteration, task_thread, data_ready, thread_ready, heap,
                  kernVars, wVars, faults, nReady, nDispatch, nBcast, recvCnt,
                  nSentinel >>

\* lines 208-209, one pass: SetEvent(data_ready[i]) on the event created at
\* line 171; the source does not look at the result
CtlBcast ==
  /\ ctlPc = "bcast"
  /\ ev_data' = [ev_data EXCEPT ![ctl_i] = "set"]
  /\ nBcast' = [nBcast EXCEPT ![ctl_i] = @ + 1]
  /\ ctl_i' = ctl_i + 1
  /\ IF ctl_i + 1 < num_threads
     THEN UNCHANGED << ctlPc, milestones >>
     ELSE /\ ctlPc' = "join"
          /\ milestones' = milestones \cup {"bcast"}
  /\ UNCHANGED << inputVars, cancelHist, planVars, mainVars, cancel_requested, ctl_r,
                  iteration, arrVars, ev_ready, th_handle, wVars, faults,
                  nReady, nDispatch, recvCnt, nSentinel, pending, lost >>

\* a faulty variant of CtlJoin: bWaitAll FALSE, the wait returns as soon as
\* one worker thread has ended
CtlJoinWaitAny ==
  /\ ctlPc = "join"
  /\ \E i \in Spawned : Exited(i)
  /\ task_thread' = [i \in DOMAIN task_thread |-> 0]
  /\ ctl_r' = 0
  /\ GotoOut
  /\ milestones' = milestones \cup {"join"}
  /\ UNCHANGED << inputVars, cancelHist, planVars, mainVars, cancel_requested, iteration,
                  data_ready, thread_ready, thread_data, heap, kernVars, wVars,
                  faults, nReady, nDispatch, nBcast, recvCnt, nSentinel,
                  pending, lost >>

\* lines 212-213 and 218: WaitForMultipleObjects(.., task_thread, TRUE, ..)
\* returns WAIT_OBJECT_0 when every worker thread has ended
CtlJoin ==
  /\ ctlPc = "join"
  /\ \A i \in Spawned : Exited(i)
  /\ task_thread' = [i \in DOMAIN task_thread |-> 0]
  /\ ctl_r' = 0
  /\ GotoOut
  /\ milestones' = milestones \cup {"join"}
  /\ UNCHANGED << inputVars, cancelHist, planVars, mainVars, cancel_requested, iteration,
                  data_ready, thread_ready, thread_data, heap, kernVars, wVars,
                  faults, nReady, nDispatch, nBcast, recvCnt, nSentinel,
                  pending, lost >>

\* faulty variant of the timed-out join: the status is set to 0 all the same
CtlJoinTimeoutStatusZero ==
  /\ ctlPc = "join"
  /\ \E i \in Spawned : ~Exited(i)
  /\ faults' = faults \cup {"timeout task_thread"}
  /\ ctl_r' = 0
  /\ ctlPc' = "out"
  /\ ctl_i' = 0
  /\ milestones' = milestones \cup {"join"}
  /\ UNCHANGED << inputVars, cancelHist, planVars, mainVars, cancel_requested,
                  iteration, arrVars, kernVars, wVars, nReady, nDispatch,
                  nBcast, recvCnt, nSentinel, pending, lost >>

\* lines 212-217: the wait times out, some worker thread still running
CtlJoinTimeout ==
  /\ ctlPc = "join"
  /\ \E i \in Spawned : ~Exited(i)
  /\ faults' = faults \cup {"timeout task_thread"}
  /\ GotoOut
  /\ milestones' = milestones \cup {"join"}
  /\ UNCHANGED << inputVars, cancelHist, planVars, mainVars, cancel_requested, ctl_r,
                  iteration, arrVars, kernVars, wVars, nReady, nDispatch,
                  nBcast, recvCnt, nSentinel, pending, lost >>

\* faulty variant of the teardown pass: the events are closed without the
\* thread being terminated first
CtlTeardownNoTerminate ==
  /\ ctlPc = "out"
  /\ ctl_i < num_threads
  /\ ~IsNull(task_thread) /\ ~IsNull(data_ready) /\ ~IsNull(thread_ready)
  /\ LET i == ctl_i IN
       /\ ev_data' = [ev_data EXCEPT ![i] = IF data_ready[i] # 0 THEN "closed" ELSE @]
       /\ ev_ready' = [ev_ready EXCEPT ![i] = IF thread_ready[i] # 0 THEN "closed" ELSE @]
       /\ ctl_i' = i + 1
  /\ UNCHANGED << inputVars, cancelHist, planVars, mainVars, cancel_requested, ctlPc, ctl_r,
                  iteration, arrVars, th_handle, wVars, faults, histVars >>

\* lines 221-228, one pass of the loop, the three arrays being allocated:
\* TerminateThread on a non-NULL thread handle, CloseHandle on non-NULL events
CtlTeardown ==
  /\ ctlPc = "out"
  /\ ctl_i < num_threads
  /\ ~IsNull(task_thread) /\ ~IsNull(data_ready) /\ ~IsNull(thread_ready)
  /\ LET i == ctl_i IN
       /\ wPc' = [wPc EXCEPT ![i] =
                    IF task_thread[i] # 0 /\ Running(i) THEN "terminated" ELSE @]
       /\ ev_data' = [ev_data EXCEPT ![i] = IF data_ready[i] # 0 THEN "closed" ELSE @]
       /\ ev_ready' = [ev_ready EXCEPT ![i] = IF thread_ready[i] # 0 THEN "closed" ELSE @]
       /\ ctl_i' = i + 1
  /\ UNCHANGED << inputVars, cancelHist, planVars, mainVars, cancel_requested, ctlPc, ctl_r,
                  iteration, arrVars, th_handle, w_seen, w_data, w_pin,
                  faults, histVars >>

\* lines 221-228, one pass of the loop when calloc returned NULL for one of
\* the arrays the loop indexes: task_thread[i], data_ready[i] or
\* thread_ready[i] is read through a null pointer.  The read either ends
\* the process or yields a value the pass does nothing with.
CtlTeardownNull ==
  /\ ctlPc = "out"
  /\ ctl_i < num_threads
  /\ IsNull(task_thread) \/ IsNull(data_ready) \/ IsNull(thread_ready)
  /\ \E crash \in BOOLEAN :
       IF crash
       THEN /\ ctlPc' = "crashed"
            /\ UNCHANGED ctl_i
       ELSE /\ ctl_i' = ctl_i + 1
            /\ UNCHANGED ctlPc
  /\ milestones' = milestones \cup {"null dereference"}
  /\ UNCHANGED << inputVars, cancelHist, planVars, mainVars, cancel_requested, ctl_r,
                  iteration, arrVars, kernVars, wVars, faults, nReady,
                  nDispatch, nBcast, recvCnt, nSentinel, pending, lost >>

\* lines 229-233: the four free calls and ExitThread(r)
CtlFree ==
  /\ ctlPc = "out"
  /\ ctl_i >= num_threads
  /\ heap' = {}
  /\ ctlPc' = "done"
  /\ milestones' = milestones \cup {"teardown"}
  /\ UNCHANGED << inputVars, cancelHist, planVars, mainVars, cancel_requested, ctl_r, ctl_i,
                  iteration, task_thread, data_ready, thread_ready, thread_data,
                  kernVars, wVars, faults, nReady, nDispatch, nBcast, recvCnt,
                  nSentinel, pending, lost >>

(* -------------------------- ParallelTaskThread ------------------------- *)
\* lines 121-124: SetEvent(thread_ready[i])
WSetReady(i) ==
  /\ wPc[i] = "SetEvent"
  /\ \E ok \in BOOLEAN :
       IF ok
       THEN /\ ev_ready' = [ev_ready EXCEPT ![i] = "set"]
            /\ nReady' = [nReady EXCEPT ![i] = @ + 1]
            /\ wPc' = [wPc EXCEPT ![i] = "wait"]
            /\ UNCHANGED faults
       ELSE /\ wPc' = [wPc EXCEPT ![i] = "exit1"]
            /\ faults' = faults \cup {"worker SetEvent thread_ready"}
            /\ UNCHANGED << ev_ready, nReady >>
  /\ UNCHANGED << inputVars, cancelHist, planVars, mainVars, cancel_requested, ctlVars,
                  arrVars, ev_data, th_handle, w_seen, w_data, w_pin,
                  nDispatch, nBcast, recvCnt, nSentinel, pending, lost,
                  milestones >>

\* line 127: WaitForSingleObject(data_ready[i], ..) returns WAIT_OBJECT_0
\* and the auto-reset event is reset
WWaitData(i) ==
  /\ wPc[i] = "wait"
  /\ ev_data[i] = "set"
  /\ ev_data' = [ev_data EXCEPT ![i] = "unset"]
  /\ wPc' = [wPc EXCEPT ![i] = "check"]
  /\ UNCHANGED << inputVars, cancelHist, planVars, mainVars, cancel_requested, ctlVars,
                  arrVars, ev_ready, th_handle, w_seen, w_data, w_pin,
                  faults, histVars >>

\* lines 127-130: the wait times out, the event not having been signalled
WWaitTimeout(i) ==
  /\ wPc[i] = "wait"
  /\ ev_data[i] # "set"
  /\ wPc' = [wPc EXCEPT ![i] = "exit1"]
  /\ faults' = faults \cup {"worker timeout data_ready"}
  /\ UNCHANGED << inputVars, cancelHist, planVars, mainVars, cancel_requested, ctlVars,
                  arrVars, kernVars, w_seen, w_data, w_pin, histVars >>

\* faulty variant of the exit check: the sentinel is counted but the worker
\* goes round its loop again instead of returning
WCheckNoExit(i) ==
  /\ wPc[i] = "check"
  /\ LET v == thread_data[i] IN
       IF v = 0
       THEN /\ wPc' = [wPc EXCEPT ![i] = "SetEvent"]
            /\ nSentinel' = [nSentinel EXCEPT ![i] = @ + 1]
            /\ UNCHANGED << w_seen, recvCnt, pending >>
       ELSE /\ wPc' = [wPc EXCEPT ![i] = "print"]
            /\ w_seen' = [w_seen EXCEPT ![i] = v]
            /\ recvCnt' = [recvCnt EXCEPT ![v] = @ + 1]
            /\ pending' = [pending EXCEPT ![i] = FALSE]
            /\ UNCHANGED nSentinel
  /\ UNCHANGED << inputVars, cancelHist, planVars, mainVars, cancel_requested, ctlVars,
                  arrVars, kernVars, w_data, w_pin, faults, nReady,
                  nDispatch, nBcast, lost, milestones >>

\* lines 133-136: the exit check, the first read of thread_data[i]
WCheck(i) ==
  /\ wPc[i] = "check"
  /\ LET v == thread_data[i] IN
       IF v = 0
       THEN /\ wPc' = [wPc EXCEPT ![i] = "exit0"]
            /\ nSentinel' = [nSentinel EXCEPT ![i] = @ + 1]
            /\ UNCHANGED << w_seen, recvCnt, pending >>
       ELSE /\ wPc' = [wPc EXCEPT ![i] = "print"]
            /\ w_seen' = [w_seen EXCEPT ![i] = v]
            /\ recvCnt' = [recvCnt EXCEPT ![v] = @ + 1]
            /\ pending' = [pending EXCEPT ![i] = FALSE]
            /\ UNCHANGED nSentinel
  /\ UNCHANGED << inputVars, cancelHist, planVars, mainVars, cancel_requested, ctlVars,
                  arrVars, kernVars, w_data, w_pin, faults, nReady,
                  nDispatch, nBcast, lost, milestones >>

\* line 139: the second read of thread_data[i], printed as the received data
WPrint(i) ==
  /\ wPc[i] = "print"
  /\ w_data' = [w_data EXCEPT ![i] = thread_data[i]]
  /\ wPc' = [wPc EXCEPT ![i] = "work"]
  /\ UNCHANGED << inputVars, cancelHist, planVars, mainVars, cancel_requested, ctlVars,
                  arrVars, kernVars, w_seen, w_pin, faults, histVars >>

\* faulty variant of the workload: the worker returns when it reads
\* cancel_requested as set
WWorkExitsOnCancel(i) ==
  /\ wPc[i] = "work"
  /\ wPc' = [wPc EXCEPT ![i] = IF cancel_requested THEN "exit0"
                                ELSE "SetEvent"]
  /\ UNCHANGED << inputVars, cancelHist, planVars, mainVars,
                  cancel_requested, ctlVars, arrVars, kernVars, w_seen,
                  w_data, w_pin, faults, histVars >>

\* lines 142-143, the dummy workload as one step: the loop sleeps until j
\* reaches 25 or cancel_requested is read as set, and touches nothing but j.
\* Left by the count it goes back to line 121; left because cancel_requested
\* was read as set it stands at "break", the loop being cut short
WWork(i) ==
  /\ wPc[i] = "work"
  /\ wPc' = [wPc EXCEPT ![i] = IF cancel_requested THEN "break"
                                ELSE "SetEvent"]
  /\ UNCHANGED << inputVars, cancelHist, planVars, mainVars,
                  cancel_requested, ctlVars, arrVars, kernVars, w_seen,
                  w_data, w_pin, faults, histVars >>

\* line 119: after a workload cut short, the for (;;) loop goes round again
WBreak(i) ==
  /\ wPc[i] = "break"
  /\ wPc' = [wPc EXCEPT ![i] = "SetEvent"]
  /\ UNCHANGED << inputVars, cancelHist, planVars, mainVars,
                  cancel_requested, ctlVars, arrVars, kernVars, w_seen,
                  w_data, w_pin, faults, histVars >>

(* --------------------------- specifications ---------------------------- *)
\* the process affinity sets of the pool runs: the k lowest cores, k <= MaxWorkers
PoolAffinity == {Pow2(k) - 1 : k \in 0..MaxWorkers}

InitRest ==
  /\ num_threads = 0
  /\ thread_affinity = NULLARR
  /\ plan_ret = "none"
  /\ mainPc = "start"
  /\ main_r = 1
  /\ cancel_requested = FALSE
  /\ ctlPc = "idle"
  /\ ctl_r = 1
  /\ ctl_i = 0
  /\ iteration = 0
  /\ task_thread = NULLARR
  /\ data_ready = NULLARR
  /\ thread_ready = NULLARR
  /\ thread_data = NULLARR
  /\ heap = {}
  /\ ev_data = [i \in Workers |-> "none"]
  /\ ev_ready = [i \in Workers |-> "none"]
  /\ th_handle = [i \in Workers |-> "none"]
  /\ wPc = [i \in Workers |-> "none"]
  /\ w_seen = [i \in Workers |-> 0]
  /\ w_data = [i \in Workers |-> 0]
  /\ w_pin = [i \in Workers |-> 0]
  /\ faults = {}
  /\ nReady = [i \in Workers |-> 0]
  /\ nDispatch = [i \in Workers |-> 0]
  /\ nBcast = [i \in Workers |-> 0]
  /\ recvCnt = [v \in 1..MAX_ITERATIONS |-> 0]
  /\ nSentinel = [i \in Workers |-> 0]
  /\ pending = [i \in Workers |-> FALSE]
  /\ lost = {}
  /\ milestones = {}
  /\ cancel_early = FALSE
  /\ wrAfter = 0

Init ==
  /\ proc_affinity \in PoolAffinity
  /\ spare = SPARE_THREADS
  /\ InitRest

MainNext == MainPlan \/ MainStart \/ MainWait \/ MainReturn

CtlNext ==
  \/ CtlAlloc \/ CtlCreate \/ CtlLoop \/ CtlWaitReady \/ CtlWaitTimeout
  \/ CtlWrite \/ CtlSignal \/ CtlSleep \/ CtlMemset \/ CtlBcast
  \/ CtlJoin \/ CtlJoinTimeout \/ CtlTeardown \/ CtlTeardownNull \/ CtlFree

WorkerNext(i) ==
  \/ WSetReady(i) \/ WWaitData(i) \/ WWaitTimeout(i) \/ WCheck(i)
  \/ WPrint(i) \/ WWork(i) \/ WBreak(i)

Next ==
  \/ MainNext
  \/ ConsoleHandler
  \/ CtlNext
  \/ \E i \in Workers : WorkerNext(i)

Spec == Init /\ [][Next]_vars

\* the planner alone, over every affinity word and spare count of the bounds
InitPlan ==
  /\ proc_affinity \in 0..(Pow2(AffinityBits) - 1)
  /\ spare \in 0..MaxSpare
  /\ InitRest

SpecPlan == InitPlan /\ [][MainPlan]_vars

\* the threads are scheduled by the operating system: ControlThread is never
\* starved, and each of its waits is bounded by WAIT_TIME
FairSpec == Spec /\ WF_vars(CtlNext)

(* ------------------------- vocabulary of the claims -------------------- *)
WaitFaults == {"timeout thread_ready", "timeout task_thread",
               "worker timeout data_ready"}
SignalFaults == {"SetEvent data_ready", "worker SetEvent thread_ready",
                 "CreateEvent"}
DispatchFaults == {"timeout thread_ready", "SetEvent data_ready"}
SetupFaults == {"calloc", "CreateEvent", "CreateThread"}
NoTimeoutNoSignalFault == faults \cap (WaitFaults \cup SignalFaults) = {}
SetupCompleted == "setup" \in milestones
\* the rounds the dispatch loop performed: write and signal both done
Rounds == IF iteration = 0 THEN 0 ELSE iteration - 1
WasSpawned(i) == wPc[i] # "none"

(* ------------------------------- C1 ----------------------------------- *)
\* C1: main_utf8 returns 0 exactly on a fully successful run, and 1 whenever
\* the planner failed, the control thread could not be created, ControlThread's
\* setup failed, a dispatch wait or signal failed, or the join wait timed out.
C1_ExitCodeReflectsFailure ==
  mainPc = "done" =>
    /\ main_r \in {0, 1}
    /\ main_r = 0 <=>
         /\ plan_ret = "TRUE"
         /\ "CreateThread ControlThread" \notin faults
         /\ faults \cap (SetupFaults \cup DispatchFaults \cup {"timeout task_thread"}) = {}

(* ------------------------------- C2 ----------------------------------- *)
\* C2: when ControlThread has returned after k rounds with no timeout and no
\* signalling failure, each of the values 1..k was received exactly once and
\* no other value was received.
C2_EveryValueReceivedOnce ==
  (ctlPc = "done" /\ NoTimeoutNoSignalFault) =>
    \A v \in 1..MAX_ITERATIONS : recvCnt[v] = IF v <= Rounds THEN 1 ELSE 0

C4_ShutdownBeforeTeardown ==
  (SetupCompleted /\ ctlPc \in {"out", "done"}) =>
    {"memset", "bcast", "join"} \subseteq milestones

(* ------------------------------- C5 ----------------------------------- *)
\* C5: the teardown never reads an array that calloc did not return, and when
\* ControlThread has returned every spawned worker has ended and every event
\* that was created is closed.
C5_TeardownSafeAndComplete ==
  /\ "null dereference" \notin milestones
  /\ ctlPc = "done" =>
       \A i \in Workers :
         /\ WasSpawned(i) => Exited(i)
         /\ ev_data[i] \in {"none", "closed"}
         /\ ev_ready[i] \in {"none", "closed"}

(* ------------------------------- C6 ----------------------------------- *)
\* what holds of every behaviour: no wait of ControlThread lasts forever, the
\* thread always comes to an end, by returning or in the access violation
C6_ControlThreadStops ==
  (ctlPc = "check") ~> (ctlPc \in {"done", "crashed"})

\* C6: ControlThread, once started, eventually returns, whatever the workers
\* do; and when its dispatch wait timed out it returns 1.
C6_ControlThreadReturns ==
  /\ (ctlPc = "check") ~> (ctlPc = "done")
  /\ [](ctlPc = "done" /\ "timeout thread_ready" \in faults => ctl_r = 1)

(* ------------------------------- C7 ----------------------------------- *)
\* C7 as stated: over the whole run the successful SetEvent calls on
\* thread_ready[i] and on data_ready[i] alternate, starting with thread_ready:
\* in every prefix of the run the data-ready count is the ready count or one less.
C7_Original ==
  \A i \in Workers :
    /\ nDispatch[i] + nBcast[i] <= nReady[i]
    /\ nReady[i] <= nDispatch[i] + nBcast[i] + 1

\* C7 as amended: the same for the data-ready signals of the dispatch rounds;
\* the one signal per worker of the shutdown broadcast is not counted.
C7_DispatchAlternates ==
  \A i \in Workers :
    /\ nDispatch[i] <= nReady[i]
    /\ nReady[i] <= nDispatch[i] + 1

\* a worker that was handed two rounds and signalled ready a third time
C7_Witness ==
  \E i \in Spawned : nDispatch[i] = 2 /\ nReady[i] = 3 /\ nBcast[i] = 0

(* ------------------------------- C8 ----------------------------------- *)
\* C8: the Control Loop never overwrites a slot that holds a dispatched value
\* its worker has not read yet, in a dispatch round or in the shutdown.
C8_NoOverwriteOfUnreadValue == lost = {}

(* ------------------------------- C9 ----------------------------------- *)
\* C9: a worker's failure is surfaced: when ControlThread has returned and
\* some worker had returned 1, ControlThread's status is 1.
C9_WorkerFailureSurfaces ==
  (ctlPc = "done" /\ \E i \in Workers : wPc[i] = "exit1") => ctl_r = 1

(* ------------------------------- C10 ---------------------------------- *)
\* the positions of the set bits of a word, and the n-th lowest of them
BitsOf(a) == {k \in 0..(WordBits - 1) : (a \div Pow2(k)) % 2 = 1}
NthBit(a, n) ==
  CHOOSE k \in BitsOf(a) : Cardinality({b \in BitsOf(a) : b < k}) = n

\* C10: when GetProcessAffinityMask reported a set with c bits, c > spare, and
\* calloc returned memory, SetThreadAffinity returns TRUE, num_threads is
\* c - spare, and thread_affinity holds c - spare masks: mask i is the single
\* bit at the (i+1)-th lowest set position of the set, so the masks are
\* pairwise disjoint.
C10_PlanMasks ==
  LET c == Cardinality(BitsOf(proc_affinity)) IN
  (plan_ret # "none" /\ faults = {} /\ c > spare) =>
    /\ plan_ret = "TRUE"
    /\ num_threads = c - spare
    /\ DOMAIN thread_affinity = 0..(c - spare - 1)
    /\ \A i \in DOMAIN thread_affinity :
         thread_affinity[i] = Pow2(NthBit(proc_affinity, i))
    /\ \A i, k \in DOMAIN thread_affinity :
         i # k => BitAnd(thread_affinity[i], thread_affinity[k]) = 0

\* affinity 1101b with one spare core: two masks, bits 0 and 2
C10_Witness ==
  /\ plan_ret = "TRUE"
  /\ proc_affinity = 13
  /\ spare = 1
  /\ thread_affinity = (0 :> 1 @@ 1 :> 4)

(* ------------------------------- C11 ---------------------------------- *)
\* C11: when GetProcessAffinityMask reported a set with c bits, c <= spare,
\* SetThreadAffinity returns FALSE and leaves num_threads 0 and
\* thread_affinity NULL.
C11_FailedPlanLeavesNothing ==
  LET c == Cardinality(BitsOf(proc_affinity)) IN
  (plan_ret # "none" /\ "GetProcessAffinityMask" \notin faults /\ c <= spare) =>
    /\ plan_ret = "FALSE"
    /\ num_threads = 0
    /\ IsNull(thread_affinity)
(* ------------------------------- C12 ---------------------------------- *)
\* C12: a worker that reads 0 from its slot at the exit check returns 0, and
\* from then on stays returned: it reads its slot no more (no further exit
\* check or second read), signals ready no more and waits no more.
C12_SentinelEndsWorker ==
  [][\A i \in Workers :
       /\ (wPc[i] = "check" /\ thread_data[i] = 0 /\ wPc'[i] # "check") =>
            wPc'[i] \in {"exit0", "terminated"}
       /\ nSentinel'[i] >= 1 => wPc'[i] = "exit0"
       /\ wPc[i] = "exit0" =>
            /\ wPc'[i] = "exit0"
            /\ nReady'[i] = nReady[i]
            /\ nSentinel'[i] = nSentinel[i]
            /\ w_seen'[i] = w_seen[i]
            /\ w_data'[i] = w_data[i]]_vars

\* every worker read the sentinel and returned 0, and ControlThread is done
C12_Witness ==
  /\ ctlPc = "done"
  /\ num_threads = MaxWorkers
  /\ \A i \in Spawned : wPc[i] = "exit0" /\ nSentinel[i] = 1 /\ nReady[i] >= 2
(* ------------------------------- C13 ---------------------------------- *)
\* the statement as claimed: status 0 exactly when setup completed, the loop
\* ran all MAX_ITERATIONS rounds without a dispatch fault, and the join
\* succeeded with no worker terminated
C13_Original ==
  ctlPc = "done" =>
    /\ ctl_r \in {0, 1}
    /\ ctl_r = 0 <=>
         /\ SetupCompleted
         /\ Rounds = MAX_ITERATIONS
         /\ faults \cap DispatchFaults = {}
         /\ "timeout task_thread" \notin faults
         /\ \A i \in Workers : wPc[i] # "terminated"

\* C13: ControlThread's exit status is 0 or 1, and it is 0 exactly when
\* setup completed, the dispatch loop was left by its own condition (all
\* MAX_ITERATIONS rounds done, or cancel_requested read as set) with no wait
\* timeout and no signalling failure in it, and the wait for all workers to
\* exit succeeded; no worker was then terminated.
C13_ExitStatus ==
  ctlPc = "done" =>
    /\ ctl_r \in {0, 1}
    /\ ctl_r = 0 <=>
         /\ SetupCompleted
         /\ "loop left" \in milestones
         /\ Rounds = MAX_ITERATIONS \/ cancel_requested
         /\ faults \cap DispatchFaults = {}
         /\ "timeout task_thread" \notin faults
         /\ \A i \in Workers : wPc[i] # "terminated"

\* a cancelled run that ended with status 0 before all rounds were done
C13_Witness ==
  /\ ctlPc = "done"
  /\ ctl_r = 0
  /\ cancel_requested
  /\ Rounds < MAX_ITERATIONS
  /\ num_threads = MaxWorkers
(* ------------------------------- C14 ---------------------------------- *)
\* C14: a worker is terminated by TerminateThread only after ControlThread
\* has zeroed the slots and set every worker's data_ready event, and its
\* wait for all worker threads to exit has then timed out.
C14_TerminateOnlyAfterJoinTimeout ==
  \A i \in Workers :
    wPc[i] = "terminated" =>
      /\ {"memset", "bcast", "join"} \subseteq milestones
      /\ \A k \in Spawned : nBcast[k] = 1
      /\ "timeout task_thread" \in faults
(* ------------------------------- C15 ---------------------------------- *)
\* C15: the loop condition is never passed with cancel_requested set, so at
\* most one value is written to a slot by the dispatch loop after the flag
\* was set (that of the round in progress), and none when the flag was set
\* before the first evaluation of the loop condition; having read the flag
\* as set at the loop condition, ControlThread goes on to the sleep, the
\* zeroing of the slots and the broadcast.
C15_CancelStopsNewRounds ==
  [][/\ (ctlPc = "loop" /\ ctlPc' = "wait") => ~cancel_requested
     /\ (ctlPc = "loop" /\ cancel_requested) => ctlPc' \in {"loop", "sleep"}
     /\ ctlPc = "sleep" => ctlPc' \in {"sleep", "memset"}
     /\ ctlPc = "memset" => ctlPc' \in {"memset", "bcast"}
     /\ wrAfter' <= 1
     /\ cancel_early' => wrAfter' = 0]_vars

\* the flag was set during a round, the round wrote its value, no further
\* round began and every worker was sent the sentinel
C15_Witness ==
  /\ cancel_requested
  /\ wrAfter = 1
  /\ Rounds < MAX_ITERATIONS
  /\ num_threads = MaxWorkers
  /\ \A i \in Spawned : nBcast[i] = 1

\* the flag was set before the first evaluation of the loop condition and
\* the run went to the broadcast without a single round
C15_WitnessEarly ==
  /\ cancel_early
  /\ Rounds = 0
  /\ num_threads > 0
  /\ \A i \in Spawned : nBcast[i] = 1
(* ------------------------------- C16 ---------------------------------- *)
\* C16: a worker that reads cancel_requested as set in its workload only
\* leaves the workload loop and goes back to signal ready (and then wait);
\* a worker ends in three ways only: it returns 0 on reading 0 at the exit
\* check, it returns 1 when its own SetEvent or its own wait failed, or
\* ControlThread terminates it in the teardown.
C16_CancelIsAdvisoryForWorkers ==
  [][\A i \in Workers :
       /\ wPc[i] = "work" =>
            /\ wPc'[i] \in {"work", "break", "SetEvent", "terminated"}
            /\ wPc'[i] = "break" => cancel_requested
       /\ wPc[i] = "break" => wPc'[i] \in {"break", "SetEvent", "terminated"}
       /\ (wPc'[i] = "exit0" /\ wPc[i] # "exit0") =>
            wPc[i] = "check" /\ thread_data[i] = 0
       /\ (wPc'[i] = "exit1" /\ wPc[i] # "exit1") =>
            \/ wPc[i] = "SetEvent" /\ "worker SetEvent thread_ready" \in faults'
            \/ wPc[i] = "wait" /\ "worker timeout data_ready" \in faults'
       /\ (wPc'[i] = "terminated" /\ wPc[i] # "terminated") =>
            ctlPc = "out"]_vars

\* a worker left its workload loop on reading the flag while ControlThread
\* is still in its dispatch loop
C16_Witness ==
  /\ cancel_requested
  /\ ctlPc \in {"loop", "wait", "write", "signal"}
  /\ \E i \in Spawned : wPc[i] = "break"
(* ------------------------------- C17 ---------------------------------- *)
\* C17: as long as worker i is running (spawned and neither returned nor
\* terminated) its two events exist and are not closed, and the arrays it
\* indexes (data_ready, thread_ready, thread_data) are allocated and not
\* freed; so the events exist when the worker is spawned, and they are
\* closed and the arrays freed only once the worker has ended.
C17_NoUseAfterRelease ==
  \A i \in Workers :
    /\ Running(i) =>
         /\ ev_data[i] \in {"unset", "set"}
         /\ ev_ready[i] \in {"unset", "set"}
         /\ {"data_ready", "thread_ready", "thread_data"} \subseteq heap
         /\ i \in DOMAIN thread_data
    /\ (ev_data[i] = "closed" \/ ev_ready[i] = "closed") =>
         wPc[i] \in {"none", "exit0", "exit1", "terminated"}

\* a run whose join timed out: each worker was terminated, then its events
\* closed, then the arrays freed
C17_Witness ==
  /\ ctlPc = "done"
  /\ heap = {}
  /\ num_threads = MaxWorkers
  /\ "timeout task_thread" \in faults
  /\ \E i \in Spawned : wPc[i] = "terminated"
  /\ \A i \in Spawned : ev_data[i] = "closed" /\ ev_ready[i] = "closed"
(* ------------------------------- C18 ---------------------------------- *)
\* C18: the value a worker prints at line 139 (its second read of the slot)
\* is the value it tested at line 133, and is never 0.
C18_PrintedValueIsTestedValue ==
  \A i \in Workers :
    wPc[i] \in {"work", "break"} => (w_data[i] = w_seen[i] /\ w_data[i] # 0)

(* ------------------------------- C19 ---------------------------------- *)
\* C19: when ControlThread has returned, every handle it created is closed:
\* the two events of each worker and the thread handle of each spawned
\* worker.
C19_NoHandleLeak ==
  ctlPc = "done" =>
    \A i \in Workers :
      /\ ev_data[i] \notin {"unset", "set"}
      /\ ev_ready[i] \notin {"unset", "set"}
      /\ th_handle[i] # "open"
(* ------------------------------- C20 ---------------------------------- *)
\* C20: the steps of a dispatch round that selected worker i (the wait of
\* line 189, the write of line 195, the SetEvent of line 197) reset only
\* thread_ready[i], write only thread_data[i] and set only data_ready[i]:
\* every other worker's slot and both its events are as before the step.
\* A thread_ready event that is set stays set until the wait selects it
\* (or the teardown closes it).
C20_RoundTouchesOnlySelectedWorker ==
  [][LET sel == IF ctlPc = "wait" THEN ctl_i' ELSE ctl_i IN
     /\ (ctlPc = "wait" /\ ctlPc' = "write") =>
          ev_ready[sel] = "set" /\ ev_ready'[sel] = "unset"
     /\ (ctlPc = "write" /\ ctlPc' = "signal") => thread_data'[sel] = iteration
     /\ (ctlPc = "signal" /\ ctlPc' = "loop") => ev_data'[sel] = "set"
     /\ \A k \in Workers :
          /\ (ctlPc \in {"wait", "write", "signal"} /\ ctlPc' # ctlPc
                /\ k # sel) =>
               /\ ev_ready'[k] = ev_ready[k]
               /\ ev_data'[k] = ev_data[k]
               /\ k \in DOMAIN thread_data => thread_data'[k] = thread_data[k]
          /\ (ev_ready[k] = "set" /\ ev_ready'[k] # "set") =>
               \/ ctlPc = "wait" /\ ctlPc' = "write" /\ ctl_i' = k
               \/ ctlPc = "out" /\ ev_ready'[k] = "closed"]_vars

\* a round has written the slot of the worker it selected while another
\* worker, whose slot holds an earlier value, has its ready signal pending
C20_Witness ==
  /\ ctlPc = "signal"
  /\ \E k \in Spawned :
       /\ k # ctl_i
       /\ ev_ready[k] = "set"
       /\ thread_data[k] # 0
       /\ thread_data[k] # thread_data[ctl_i]

====
